---- MODULE Spec2Model ----
(***************************************************************************)
(* FleetSim: the fleet-state simulator (evsim/data/car2go.py,              *)
(* calculate_capacity) and the bidding strategies of the controller        *)
(* (evsim/controller/strategy.py).                                         *)
(*                                                                         *)
(* Spec     the tick loop of calculate_capacity over a trip table          *)
(* SpecCtl  strategy invocations and plan updates of the controller        *)
(*                                                                         *)
(* SoC values are percent.  The parameters of calculate_capacity are       *)
(* chosen so that charging_step is a whole number of percent; all          *)
(* arithmetic is exact.                                                    *)
(***************************************************************************)
EXTENDS Integers, Sequences, FiniteSets, TLC

VARIABLES
    \* ---- calculate_capacity ----
    df,             \* the trip table, a sequence of trip records
    sim_charging,   \* parameter sim_charging
    charging_step,  \* SoC gained in one tick
    fleet, rent, charging, vpp,   \* the four dicts EV -> SoC
    timeslots,      \* the tick grid, a sequence of timestamps
    ti,             \* number of ticks of the loop already run
    df_charging,    \* the rows appended so far
    fpc,            \* "loop" | "done"
    \* ---- controller strategies ----
    now,            \* env.now, seconds
    timestep,       \* the period at which the strategy is invoked
    balancing_plan, \* controller.balancing_plan, timeslot -> kW
    intraday_plan,  \* controller.intraday_plan, timeslot -> kW
    balance,        \* controller.account.balance, in 1/4000 EUR
    cpc,            \* "idle" | "bal_loop" | "intraday"
    strategy,       \* the strategy being run
    ratio2,         \* twice the ratio of the running strategy
    bi,             \* index of the next interval of balancing's loop
    last,           \* the latest call of _update_consumption_plan
    written,        \* <<market, timeslot>> -> number of consumption_plan.add calls
    attempts,       \* calls of _update_consumption_plan in this invocation
    warned,         \* "Could not update consumption plan" warnings in this invocation
    uncaught,       \* an exception has left a strategy invocation
    invocations,    \* strategy invocations so far
    steps,          \* clock advances so far
    \* ---- event-driven driver ----
    env_now,        \* env.now of the simpy environment
    queue,          \* the environment's scheduled events
    eid,            \* the id the next scheduled event gets
    li,             \* lifecycle: index of the rental it waits for
    lc_evs,         \* lifecycle: the dict evs, its keys
    dispatched,     \* the env.process(ev.drive(..)) calls so far: trip and clock
    drive,          \* drive activity of each trip: "none" | "new" | "suspended" | "done"
    ev_soc,         \* EV -> SoC of the Vehicle entity
    ev_vpp,         \* the EVs registered with the VPP
    spc             \* main: "main" | "running" | "stopped" | "error"

fleetVars == <<df, sim_charging, charging_step, fleet, rent, charging, vpp,
               timeslots, ti, df_charging, fpc>>

ctlVars == <<now, timestep, balancing_plan, intraday_plan, balance, cpc, strategy,
             ratio2, bi, last, written, attempts, warned, uncaught, invocations,
             steps>>

simVars == <<env_now, queue, eid, li, lc_evs, dispatched, drive, ev_soc, ev_vpp, spc>>

vars == <<fleetVars, ctlVars, simVars>>

-----------------------------------------------------------------------------
(* Bounds of the model *)

NumEVs == 2
MaxTrips == 3
MaxTick == 2
MaxInvocations == 2   \* strategy invocations in a run
MaxSteps == 1         \* clock advances in a run
LiquidSlots == 1      \* slots of a day for which the balancing market accepts bids

(* Parameters of the run *)
Period == 300
ControlPeriod == 5
ChargingSpeed == 12
EvCapacity == 5
\* <<start_soc, end_soc>> of a trip
SoCPairs == {<<70, 60>>, <<90, 80>>, <<90, 100>>}

EVs == 1..NumEVs
Times == {Period * k : k \in 0..MaxTick}

-----------------------------------------------------------------------------
(* Python dict and pandas helpers *)

Min(S) == CHOOSE x \in S : \A y \in S : x <= y
Max(S) == CHOOSE x \in S : \A y \in S : x >= y

EmptyDict == << >>

Keys(d) == DOMAIN d

\* dict(zip(ks, vs)): pairs up to the shorter sequence, the last pair of a key wins
ZipDict(ks, vs) ==
    LET n == Min({Len(ks), Len(vs)})
        pos(k) == Max({i \in 1..n : ks[i] = k})
    IN  [k \in {ks[i] : i \in 1..n} |-> vs[pos(k)]]

\* d.update(e)
Update(d, e) ==
    [k \in DOMAIN d \cup DOMAIN e |-> IF k \in DOMAIN e THEN e[k] ELSE d[k]]

\* d.pop(k, None) for every k of S
PopAll(d, S) == [k \in DOMAIN d \ S |-> d[k]]

\* a column of a frame, as a sequence
Col(evs, c) == [i \in 1..Len(evs) |-> evs[i][c]]

RECURSIVE SumDict(_)
SumDict(d) ==
    IF DOMAIN d = {} THEN 0
    ELSE LET k == CHOOSE x \in DOMAIN d : TRUE
         IN  d[k] + SumDict([j \in DOMAIN d \ {k} |-> d[j]])

-----------------------------------------------------------------------------
(* calculate_capacity and its helpers *)

\* _charging_step: 100 * (charging_speed / 60 * control_period) / battery_capacity
ChargingStepOf(battery_capacity, speed, control_period) ==
    (100 * speed * control_period) \div (60 * battery_capacity)

\* mutant: the grid stops before the maximum end time (a right-open range)
TimeslotsOpenEnd(d) ==
    LET lo == Min({d[i].start_time : i \in 1..Len(d)})
        hi == Max({d[i].end_time : i \in 1..Len(d)})
        n  == (hi - lo) \div Period
    IN  [k \in 1..n |-> lo + Period * (k - 1)]

\* pd.date_range(min start, max end, freq="5min"): the grid points from the
\* minimum start time that do not pass the maximum end time
TimeslotsOf(d) ==
    LET lo == Min({d[i].start_time : i \in 1..Len(d)})
        hi == Max({d[i].end_time : i \in 1..Len(d)})
        n  == (hi - lo) \div Period
    IN  [k \in 1..(n + 1) |-> lo + Period * (k - 1)]

\* _avg_soc as the exact fraction <<sum, count>>; 0 for an empty dict
AvgSoc(evs) ==
    IF Cardinality(DOMAIN evs) > 0
    THEN <<SumDict(evs), Cardinality(DOMAIN evs)>>
    ELSE <<0, 1>>

\* _simulate_charge
\* mutant: the charging entries are incremented without the cap
SimChargingUncapped(c, step) == [k \in DOMAIN c |-> c[k] + step]

SimCharging(c, step) ==
    [k \in DOMAIN c |-> IF c[k] <= 100 - step THEN c[k] + step ELSE 100]

SimVpp(v, step) == [k \in DOMAIN v |-> v[k] + step]

\* mutant: the vehicles for rent are charged as well
SimulateChargeRent(s, step) ==
    [s EXCEPT !.charging = SimCharging(s.charging, step),
              !.vpp = SimVpp(s.vpp, step),
              !.rent = SimCharging(s.rent, step)]

SimulateCharge(s, step) ==
    [s EXCEPT !.charging = SimCharging(s.charging, step),
              !.vpp = SimVpp(s.vpp, step)]

\* mutant: stage 2 keeps every entry that is not above 100
KeepVppNoHeadroom(v, step) ==
    LET keep == {k \in DOMAIN v : v[k] <= 100}
    IN  [k \in keep |-> v[k]]

\* stage 2 of the tick
KeepVpp(v, step) ==
    LET keep == {k \in DOMAIN v : v[k] <= 100 - step}
    IN  [k \in keep |-> v[k]]

\* _end_trip
EndCharging(c, evs) ==
    LET charging_evs == SelectSeq(evs, LAMBDA r : r.end_charging = 1)
    IN  Update(c, ZipDict(Col(charging_evs, "EV"), Col(evs, "end_soc")))

\* mutant: a trip that ends with exactly 100 - charging_step is not eligible
EndVppStrict(v, evs, step) ==
    LET charging_evs == SelectSeq(evs, LAMBDA r : r.end_charging = 1)
        vpp_evs == SelectSeq(charging_evs, LAMBDA r : r.end_soc < 100 - step)
    IN  Update(v, ZipDict(Col(vpp_evs, "EV"), Col(vpp_evs, "end_soc")))

EndVpp(v, evs, step) ==
    LET charging_evs == SelectSeq(evs, LAMBDA r : r.end_charging = 1)
        vpp_evs == SelectSeq(charging_evs, LAMBDA r : r.end_soc <= 100 - step)
    IN  Update(v, ZipDict(Col(vpp_evs, "EV"), Col(vpp_evs, "end_soc")))

EndTrip(s, evs, step) ==
    [fleet |-> Update(s.fleet, ZipDict(Col(evs, "EV"), Col(evs, "end_soc"))),
     rent |-> Update(s.rent, ZipDict(Col(evs, "EV"), Col(evs, "end_soc"))),
     charging |-> EndCharging(s.charging, evs),
     vpp |-> EndVpp(s.vpp, evs, step)]

\* mutant: a starting EV is not taken out of vpp
StartTripKeepsVpp(s, evs) ==
    LET out == {evs[i].EV : i \in 1..Len(evs)}
    IN  [fleet |-> Update(s.fleet, ZipDict(Col(evs, "EV"), Col(evs, "start_soc"))),
         rent |-> PopAll(s.rent, out),
         charging |-> PopAll(s.charging, out),
         vpp |-> s.vpp]

\* _start_trip
StartTrip(s, evs) ==
    LET out == {evs[i].EV : i \in 1..Len(evs)}
    IN  [fleet |-> Update(s.fleet, ZipDict(Col(evs, "EV"), Col(evs, "start_soc"))),
         rent |-> PopAll(s.rent, out),
         charging |-> PopAll(s.charging, out),
         vpp |-> PopAll(s.vpp, out)]

EndingEvs(d, t) == SelectSeq(d, LAMBDA r : r.end_time = t)
StartingEvs(d, t) == SelectSeq(d, LAMBDA r : r.start_time = t)

\* the four dicts, and what stages 1 to 4 of the tick at t make of them
Maps == [fleet |-> fleet, rent |-> rent, charging |-> charging, vpp |-> vpp]

Stage1(s, sim, step) == IF sim THEN SimulateCharge(s, step) ELSE s
Stage2(s, step) == [s EXCEPT !.vpp = KeepVpp(s.vpp, step)]
Stage3(s, d, t, step) == EndTrip(s, EndingEvs(d, t), step)
Stage4(s, d, t) == StartTrip(s, StartingEvs(d, t))

\* mutant: starting trips are processed before ending trips
TickMapsStartFirst(s, d, t, sim, step) ==
    Stage3(Stage4(Stage2(Stage1(s, sim, step), step), d, t), d, t, step)

TickMaps(s, d, t, sim, step) ==
    Stage4(Stage3(Stage2(Stage1(s, sim, step), step), d, t, step), d, t)

Row(t, s) ==
    [timestamp |-> t,
     fleet |-> Cardinality(DOMAIN s.fleet), fleet_soc |-> AvgSoc(s.fleet),
     rent |-> Cardinality(DOMAIN s.rent), rent_soc |-> AvgSoc(s.rent),
     charging |-> Cardinality(DOMAIN s.charging), charging_soc |-> AvgSoc(s.charging),
     vpp |-> Cardinality(DOMAIN s.vpp), vpp_soc |-> AvgSoc(s.vpp)]

-----------------------------------------------------------------------------
(* Trip tables: sorted by start time, every time on the 5-minute grid        *)
(* (preprocess), the trips of one EV one after the other (calculate_trips)  *)

Trips ==
    {[EV |-> v, start_time |-> a, end_time |-> b,
      start_soc |-> p[1], end_soc |-> p[2], end_charging |-> c] :
        v \in EVs, a \in Times, b \in Times, p \in SoCPairs, c \in {0, 1}}

ValidTrip(r) == r.start_time <= r.end_time

SortedByStart(d) ==
    \A i \in 1..Len(d) - 1 : d[i].start_time <= d[i + 1].start_time

Sequential(d) ==
    \A i, j \in 1..Len(d) :
        IF i # j /\ d[i].EV = d[j].EV
        THEN IF d[i].end_time <= d[j].start_time
             THEN TRUE
             ELSE d[j].end_time <= d[i].start_time
        ELSE TRUE

\* EV names are arbitrary labels: they are numbered in order of first appearance
NumberedByAppearance(d) ==
    \A i \in 1..Len(d) :
        d[i].EV <= 1 + Max({0} \cup {d[j].EV : j \in 1..(i - 1)})

TripTable(d) ==
    /\ \A i \in 1..Len(d) : ValidTrip(d[i])
    /\ SortedByStart(d)
    /\ Sequential(d)
    /\ NumberedByAppearance(d)

-----------------------------------------------------------------------------
(* The run of calculate_capacity *)

FleetInit ==
    /\ \E n \in 1..MaxTrips :
         \E d \in [1..n -> {r \in Trips : ValidTrip(r)}] :
            /\ TripTable(d)
            /\ df = d
            /\ timeslots = TimeslotsOf(d)
    /\ sim_charging \in BOOLEAN
    /\ charging_step = ChargingStepOf(EvCapacity, ChargingSpeed, ControlPeriod)
    /\ fleet = EmptyDict
    /\ rent = EmptyDict
    /\ charging = EmptyDict
    /\ vpp = EmptyDict
    /\ ti = 0
    /\ df_charging = << >>
    /\ fpc = "loop"

\* one iteration of "for t in timeslots": stages 1 to 4 and the appended row
Tick ==
    /\ fpc = "loop"
    /\ ti < Len(timeslots)
    /\ \E t \in {timeslots[ti + 1]} :
         \E s \in {TickMaps(Maps, df, t, sim_charging, charging_step)} :
            /\ fleet' = s.fleet
            /\ rent' = s.rent
            /\ charging' = s.charging
            /\ vpp' = s.vpp
            /\ df_charging' = Append(df_charging, Row(t, s))
    /\ ti' = ti + 1
    /\ UNCHANGED <<df, sim_charging, charging_step, timeslots, fpc>>

\* the loop is over: the frame is built and returned
Finish ==
    /\ fpc = "loop"
    /\ ti = Len(timeslots)
    /\ fpc' = "done"
    /\ UNCHANGED <<df, sim_charging, charging_step, fleet, rent, charging, vpp,
                   timeslots, ti, df_charging>>


-----------------------------------------------------------------------------
(* The controller's strategies (strategy.py).  Times are UTC seconds.        *)
(* Money is counted in 1/4000 EUR, so that kW * 0.25 / 1000 * EUR/MWh is a   *)
(* whole number.                                                             *)

Day == 24 * 3600
Cutoff == 16 * 3600
Quarter == 15 * 60
\* mutant: the closing point of date_range is not dropped
SlotsPerDayClosed == Day \div Quarter + 1

SlotsPerDay == Day \div Quarter

\* controller.industry_tariff, EUR/MWh
IndustryTariff == 45
\* what the market collaborator may answer
Prices == {40, 45, 50}
\* predict_clearing_price raised a ValueError
NoPrice == 0 - 1
Capacities == {0, 20}
Timesteps == {30, 300, 900}

\* ConsumptionPlan.get: the committed quantity, 0 when nothing is committed
PlanGet(plan, t) == IF t \in DOMAIN plan THEN plan[t] ELSE 0

\* ConsumptionPlan.add: the quantity is written at the sub-slot
PlanAdd(plan, t, q) == [k \in DOMAIN plan \cup {t} |-> IF k = t THEN q ELSE plan[k]]

\* datetime.fromtimestamp(env.now).time() == time(16, 0)
AtCutoff(clock) == clock % Day = Cutoff

\* the intervals of balancing: every 15 minutes of the next day, last one dropped
Tomorrow(clock) == (clock \div Day + 1) * Day
Interval(clock, i) == Tomorrow(clock) + Quarter * i

\* intraday: m_30 and its test int((m_30 / 60)) % 15 == 0
M30(clock) == clock + 60 * 30
IntradayDue(clock) == (M30(clock) \div 60) % 15 = 0

\* predict_min_capacity(env, ts) * ratio
Quantity(capacity, r2) == (capacity * r2) \div 2

\* the market accepts bids for this timeslot
Liquid(market, clock, ts) ==
    \/ market = "intraday"
    \/ \E i \in 0..(LiquidSlots - 1) : ts = Interval(clock, i)

\* what the market answers to one call: a predicted clearing price or a
\* ValueError, and to the bid an error, None or the bid as accepted
MarketAnswers(market, clock, ts) ==
    {[price |-> p, bid |-> b] :
        p \in Prices \cup {NoPrice},
        b \in {"error", "none"} \cup
              (IF Liquid(market, clock, ts) THEN {"accepted"} ELSE {})}

\* 1 EUR in the unit of balance: kW * (15 / 60) / 1000 * EUR/MWh = kW * EUR/MWh / 4000
MoneyUnit == 4000

\* mutant: the cost at the clearing price is credited, not the saving
RevenueAtPrice(bid) == bid[2] * bid[3]

\* mutant: market cost minus tariff cost
RevenueNegated(bid) == bid[2] * (bid[3] - IndustryTariff)

\* _account_bid: the revenue of a bid <<timeslot, kW, EUR/MWh>>
Revenue(bid) == bid[2] * (IndustryTariff - bid[3])

\* mutant: the sub-slot offsets are added as seconds, not minutes
SubSlotsSeconds(bid) == {bid[1] + t : t \in {0, 5, 10}}

\* the sub-slots written for an accepted bid
SubSlots(bid) == {bid[1] + 60 * t : t \in {0, 5, 10}}

RECURSIVE PlanAddAll(_, _, _)
PlanAddAll(plan, ts, q) ==
    IF ts = {} THEN plan
    ELSE LET t == Min(ts)
         IN  PlanAddAll(PlanAdd(plan, t, q), ts \ {t}, q)

\* mutant: the tariff test is missing
TariffCheaperUnchecked(price) == FALSE

\* mutant: the tariff test compares the wrong way round
TariffCheaperReversed(price) == price < IndustryTariff

\* "predicted_clearing_price > controller.industry_tariff": no bid is placed
TariffCheaper(price) == price > IndustryTariff

\* mutant: a bid that came back as None is treated as accepted
BidRefusedIgnored(b) == FALSE

\* "bid is None": the market did not accept the bid
BidRefused(b) == b = "none"

\* mutant: the test is missing, an accepted bid always overwrites
AlreadyInPlanUnchecked(plan, ts) == FALSE

\* the double-booking test of _update_consumption_plan
AlreadyInPlan(plan, ts) == PlanGet(plan, ts) # 0

\* _update_consumption_plan: the outcome of one call, the plan and the balance after it
UpdateConsumptionPlan(plan, bal, ts, quantity, ans) ==
    LET skip(o) == [plan |-> plan, balance |-> bal, outcome |-> o, raised |-> FALSE,
                    bid |-> << >>]
        bid == <<ts, quantity, ans.price>>
    IN  IF ans.price = NoPrice THEN skip("no_price")
        ELSE IF TariffCheaper(ans.price) THEN skip("tariff")
        ELSE IF ans.bid = "error" THEN skip("bid_error")
        ELSE IF BidRefused(ans.bid) THEN skip("unsuccessful")
        ELSE IF AlreadyInPlan(plan, ts)
             THEN [plan |-> plan, balance |-> bal, outcome |-> "double_booking",
                   raised |-> TRUE, bid |-> bid]
        ELSE [plan |-> PlanAddAll(plan, SubSlots(bid), bid[2]),
              balance |-> bal + Revenue(bid),
              outcome |-> "bought", raised |-> FALSE, bid |-> bid]

\* mutant: the except clause names an exception the plan update never raises
ExceptOtherError(raised) == FALSE

\* "except ValueError" of balancing and intraday: the error raised by
\* _update_consumption_plan is a ValueError
ExceptValueError(raised) == raised

NoCall == [market |-> "none"]

CallRecord(market, ts, capacity, quantity, ans, r) ==
    [market |-> market, timeslot |-> ts, capacity |-> capacity,
     quantity |-> quantity, price |-> ans.price,
     bid |-> IF r.outcome \in {"no_price", "tariff"} THEN "not_called" ELSE ans.bid,
     outcome |-> r.outcome]

CountWrites(w, market, r) ==
    IF r.outcome # "bought" THEN w
    ELSE LET ks == {<<market, t>> : t \in SubSlots(r.bid)}
         IN  [k \in DOMAIN w \cup ks |->
                 (IF k \in DOMAIN w THEN w[k] ELSE 0) + (IF k \in ks THEN 1 ELSE 0)]

CtlInit ==
    /\ timestep \in Timesteps
    /\ now = Cutoff
    /\ balancing_plan = EmptyDict
    /\ intraday_plan = EmptyDict
    /\ balance = 0
    /\ cpc = "idle"
    /\ strategy = "none"
    /\ ratio2 = 2
    /\ bi = 0
    /\ last = NoCall
    /\ written = EmptyDict
    /\ attempts = 0
    /\ warned = 0
    /\ uncaught = FALSE
    /\ invocations = 0
    /\ steps = 0

\* the driver's clock moves on by one timestep between invocations
AdvanceClock ==
    /\ cpc = "idle"
    /\ steps < MaxSteps
    /\ now' = now + timestep
    /\ steps' = steps + 1
    /\ UNCHANGED <<timestep, balancing_plan, intraday_plan, balance, cpc, strategy,
                   ratio2, bi, last, written, attempts, warned, uncaught,
                   invocations>>

Invoked(name, r2) ==
    /\ cpc = "idle"
    /\ ~uncaught
    /\ invocations < MaxInvocations
    /\ invocations' = invocations + 1
    /\ strategy' = name
    /\ ratio2' = r2
    /\ last' = NoCall
    /\ attempts' = 0
    /\ warned' = 0
    /\ bi' = 0
    /\ UNCHANGED <<now, timestep, balancing_plan, intraday_plan, balance, written,
                   uncaught, steps>>

\* regular: pass
Regular ==
    /\ Invoked("regular", 2)
    /\ cpc' = "idle"

\* balancing(env, controller, timestep): returns unless it is 16:00
Balancing ==
    /\ Invoked("balancing", 2)
    /\ cpc' = IF AtCutoff(now) THEN "bal_loop" ELSE "idle"

\* intraday(env, controller, timestep)
Intraday ==
    /\ Invoked("intraday", 2)
    /\ cpc' = "intraday"

\* mutant: integrated passes no ratio on, both parts bid for the full capacity
IntegratedFullRatio ==
    /\ Invoked("integrated", 2)
    /\ cpc' = IF AtCutoff(now) THEN "bal_loop" ELSE "intraday"

\* integrated: balancing(.., 0.5), then intraday(.., 0.5)
Integrated ==
    /\ Invoked("integrated", 1)
    /\ cpc' = IF AtCutoff(now) THEN "bal_loop" ELSE "intraday"

\* one iteration of balancing's loop over the intervals
BalancingSlot ==
    /\ cpc = "bal_loop"
    /\ bi < SlotsPerDay
    /\ \E capacity \in Capacities :
       \E ts \in {Interval(now, bi)} :
       \E ans \in MarketAnswers("balancing", now, ts) :
       \E r \in {UpdateConsumptionPlan(balancing_plan, balance, ts,
                                       Quantity(capacity, ratio2), ans)} :
          /\ balancing_plan' = r.plan
          /\ balance' = r.balance
          /\ last' = CallRecord("balancing", ts, capacity,
                                Quantity(capacity, ratio2), ans, r)
          /\ written' = CountWrites(written, "balancing", r)
          /\ attempts' = attempts + 1
          /\ IF r.raised /\ ~ExceptValueError(r.raised)
             THEN /\ uncaught' = TRUE
                  /\ warned' = warned
                  /\ cpc' = "idle"
                  /\ bi' = bi
             ELSE /\ uncaught' = uncaught
                  /\ warned' = IF r.raised THEN warned + 1 ELSE warned
                  /\ bi' = bi + 1
                  /\ cpc' = IF bi + 1 < SlotsPerDay THEN "bal_loop"
                            ELSE IF strategy = "integrated" THEN "intraday"
                            ELSE "idle"
    /\ UNCHANGED <<now, timestep, intraday_plan, strategy, ratio2, invocations, steps>>

\* intraday's body: one plan update 30 minutes ahead, when that is due
IntradaySlot ==
    /\ cpc = "intraday"
    /\ cpc' = "idle"
    /\ IF IntradayDue(now)
       THEN \E capacity \in Capacities :
            \E ts \in {M30(now)} :
            \E ans \in MarketAnswers("intraday", now, ts) :
            \E r \in {UpdateConsumptionPlan(intraday_plan, balance, ts,
                                            Quantity(capacity, ratio2), ans)} :
               /\ intraday_plan' = r.plan
               /\ balance' = r.balance
               /\ last' = CallRecord("intraday", ts, capacity,
                                     Quantity(capacity, ratio2), ans, r)
               /\ written' = CountWrites(written, "intraday", r)
               /\ attempts' = attempts + 1
               /\ uncaught' = (r.raised /\ ~ExceptValueError(r.raised))
               /\ warned' = IF r.raised /\ ExceptValueError(r.raised)
                             THEN warned + 1 ELSE warned
       ELSE UNCHANGED <<intraday_plan, balance, last, written, attempts, warned,
                        uncaught>>
    /\ UNCHANGED <<now, timestep, balancing_plan, strategy, ratio2, bi, invocations,
                   steps>>

CtlIdle ==
    /\ now = 0
    /\ timestep = 0
    /\ balancing_plan = EmptyDict
    /\ intraday_plan = EmptyDict
    /\ balance = 0
    /\ cpc = "off"
    /\ strategy = "none"
    /\ ratio2 = 2
    /\ bi = 0
    /\ last = NoCall
    /\ written = EmptyDict
    /\ attempts = 0
    /\ warned = 0
    /\ uncaught = FALSE
    /\ invocations = 0
    /\ steps = 0

FleetIdle ==
    /\ df = << >>
    /\ timeslots = << >>
    /\ sim_charging = FALSE
    /\ charging_step = 0
    /\ fleet = EmptyDict
    /\ rent = EmptyDict
    /\ charging = EmptyDict
    /\ vpp = EmptyDict
    /\ ti = 0
    /\ df_charging = << >>
    /\ fpc = "off"

-----------------------------------------------------------------------------
(* The event-driven driver (simulation.py) on a simpy environment.  An event *)
(* is scheduled with a time, a priority and a running id; the environment    *)
(* processes the scheduled events in the order of (time, priority, id).      *)

\* simpy's priorities: process initialisation and the "until" event are
\* urgent, timeouts are normal
Urgent == 0
Normal == 1

SimSoCPairs == {<<70, 60>>, <<90, 100>>}

\* the trip tables replayed by the driver
SimTrips == {r \in Trips : <<r.start_soc, r.end_soc>> \in SimSoCPairs}

\* the trip_duration column: whole minutes
TripDuration(r) == (r.end_time - r.start_time) \div 60

\* df.start_time.min(), df.end_time.max()
StartTimeMin(d) == Min({d[i].start_time : i \in 1..Len(d)})
EndTimeMax(d) == Max({d[i].end_time : i \in 1..Len(d)})

Event(t, prio, id, kind, trip) ==
    [time |-> t, priority |-> prio, eid |-> id, kind |-> kind, trip |-> trip]

Before(e, f) ==
    \/ e.time < f.time
    \/ e.time = f.time /\ e.priority < f.priority
    \/ e.time = f.time /\ e.priority = f.priority /\ e.eid < f.eid

\* the event env.step() pops
NextEvent(q) == CHOOSE e \in q : \A f \in q \ {e} : Before(e, f)

\* mutant: the horizon is the latest start time
HorizonLastStart(d) == Max({d[i].start_time : i \in 1..Len(d)})

\* main: the "until" argument of env.run
Horizon(d) == EndTimeMax(d)

\* main up to env.process(lifecycle(..)): the environment starts at the
\* earliest start time with the lifecycle process scheduled
SimInit ==
    /\ \E n \in 1..MaxTrips :
         \E d \in [1..n -> {r \in SimTrips : ValidTrip(r)}] :
            /\ TripTable(d)
            /\ df = d
            /\ env_now = StartTimeMin(d)
            /\ queue = {Event(StartTimeMin(d), Urgent, 0, "init_lifecycle", 0)}
            /\ drive = [i \in 1..n |-> "none"]
    /\ eid = 1
    /\ li = 0
    /\ lc_evs = {}
    /\ dispatched = << >>
    /\ ev_soc = EmptyDict
    /\ ev_vpp = {}
    /\ spc = "main"
    /\ timeslots = << >>
    /\ sim_charging = FALSE
    /\ charging_step = ChargingStepOf(EvCapacity, ChargingSpeed, ControlPeriod)
    /\ fleet = EmptyDict
    /\ rent = EmptyDict
    /\ charging = EmptyDict
    /\ vpp = EmptyDict
    /\ ti = 0
    /\ df_charging = << >>
    /\ fpc = "off"

\* env.run(until=df.end_time.max()): a horizon that is not after the clock
\* is a ValueError, otherwise the urgent "until" event is scheduled
RunUntil ==
    /\ spc = "main"
    /\ IF Horizon(df) <= env_now
       THEN /\ spc' = "error"
            /\ UNCHANGED <<queue, eid>>
       ELSE /\ spc' = "running"
            /\ queue' = queue \cup {Event(Horizon(df), Urgent, eid, "until", 0)}
            /\ eid' = eid + 1
    /\ UNCHANGED <<df, env_now, li, lc_evs, dispatched, drive, ev_soc, ev_vpp>>

\* lifecycle starts: previous = df.iloc[0], and the first rental's wait of
\* rental.start_time - previous.start_time = 0 is scheduled
LifecycleStart ==
    /\ spc = "running"
    /\ \E e \in {NextEvent(queue)} :
          /\ e.kind = "init_lifecycle"
          /\ env_now' = e.time
          /\ queue' = (queue \ {e}) \cup {Event(e.time, Normal, eid, "rental", 1)}
          /\ eid' = eid + 1
          /\ li' = 1
    /\ UNCHANGED <<df, lc_evs, dispatched, drive, ev_soc, ev_vpp, spc>>

\* lifecycle resumes after its wait: the EV is created when new, the drive
\* activity of the rental is spawned, and the wait for the next rental is
\* scheduled
Dispatch ==
    /\ spc = "running"
    /\ \E e \in {NextEvent(queue)} :
          /\ e.kind = "rental"
          /\ env_now' = e.time
          /\ LET rental == df[li]
                 spawn == Event(e.time, Urgent, eid, "init_drive", li)
             IN  /\ lc_evs' = lc_evs \cup {rental.EV}
                 /\ ev_soc' = IF rental.EV \in lc_evs THEN ev_soc
                               ELSE Update(ev_soc, [v \in {rental.EV} |-> rental.start_soc])
                 /\ dispatched' = Append(dispatched, [trip |-> li, at |-> e.time])
                 /\ drive' = [drive EXCEPT ![li] = "new"]
                 /\ IF li < Len(df)
                    THEN /\ queue' = (queue \ {e}) \cup
                                 {spawn,
                                  Event(e.time + (df[li + 1].start_time - rental.start_time),
                                        Normal, eid + 1, "rental", li + 1)}
                         /\ eid' = eid + 2
                    ELSE /\ queue' = (queue \ {e}) \cup {spawn}
                         /\ eid' = eid + 1
                 /\ li' = li + 1
    /\ UNCHANGED <<df, ev_vpp, spc>>

\* Vehicle.drive starts: it suspends for the trip duration
DriveStart ==
    /\ spc = "running"
    /\ \E e \in {NextEvent(queue)} :
          /\ e.kind = "init_drive"
          /\ env_now' = e.time
          /\ queue' = (queue \ {e}) \cup
                 {Event(e.time + TripDuration(df[e.trip]), Normal, eid, "arrival", e.trip)}
          /\ eid' = eid + 1
          /\ drive' = [drive EXCEPT ![e.trip] = "suspended"]
    /\ UNCHANGED <<df, li, lc_evs, dispatched, ev_soc, ev_vpp, spc>>

\* Vehicle.drive resumes: the SoC is updated and, at a charger with headroom
\* for one charging step, the vehicle registers with the VPP
DriveEnd ==
    /\ spc = "running"
    /\ \E e \in {NextEvent(queue)} :
          /\ e.kind = "arrival"
          /\ env_now' = e.time
          /\ queue' = queue \ {e}
          /\ LET r == df[e.trip]
                 soc == r.start_soc - (r.start_soc - r.end_soc)
             IN  /\ ev_soc' = Update(ev_soc, [v \in {r.EV} |-> soc])
                 /\ ev_vpp' = IF r.end_charging = 1 /\ soc <= 100 - charging_step
                               THEN ev_vpp \cup {r.EV} ELSE ev_vpp
          /\ drive' = [drive EXCEPT ![e.trip] = "done"]
    /\ UNCHANGED <<df, eid, li, lc_evs, dispatched, spc>>

\* the "until" event: env.run returns
StopSimulation ==
    /\ spc = "running"
    /\ \E e \in {NextEvent(queue)} :
          /\ e.kind = "until"
          /\ env_now' = e.time
          /\ queue' = queue \ {e}
    /\ spc' = "stopped"
    /\ UNCHANGED <<df, eid, li, lc_evs, dispatched, drive, ev_soc, ev_vpp>>

SimIdle ==
    /\ env_now = 0
    /\ queue = {}
    /\ eid = 0
    /\ li = 0
    /\ lc_evs = {}
    /\ dispatched = << >>
    /\ drive = << >>
    /\ ev_soc = EmptyDict
    /\ ev_vpp = {}
    /\ spc = "off"

-----------------------------------------------------------------------------
(* Specifications *)

Init == FleetInit /\ CtlIdle /\ SimIdle

Next ==
    \/ Tick /\ UNCHANGED <<ctlVars, simVars>>
    \/ Finish /\ UNCHANGED <<ctlVars, simVars>>

Spec == Init /\ [][Next]_vars

InitCtl == FleetIdle /\ CtlInit /\ SimIdle

NextCtl ==
    \/ AdvanceClock /\ UNCHANGED <<fleetVars, simVars>>
    \/ Regular /\ UNCHANGED <<fleetVars, simVars>>
    \/ Balancing /\ UNCHANGED <<fleetVars, simVars>>
    \/ Intraday /\ UNCHANGED <<fleetVars, simVars>>
    \/ Integrated /\ UNCHANGED <<fleetVars, simVars>>
    \/ BalancingSlot /\ UNCHANGED <<fleetVars, simVars>>
    \/ IntradaySlot /\ UNCHANGED <<fleetVars, simVars>>

SpecCtl == InitCtl /\ [][NextCtl]_vars

simFrame == <<sim_charging, charging_step, fleet, rent, charging, vpp, timeslots, ti,
              df_charging, fpc, ctlVars>>

InitSim == SimInit /\ CtlIdle

NextSim ==
    \/ RunUntil /\ UNCHANGED simFrame
    \/ LifecycleStart /\ UNCHANGED simFrame
    \/ Dispatch /\ UNCHANGED simFrame
    \/ DriveStart /\ UNCHANGED simFrame
    \/ DriveEnd /\ UNCHANGED simFrame
    \/ StopSimulation /\ UNCHANGED simFrame

SpecSim == InitSim /\ [][NextSim]_vars

\* env.run keeps processing events until it returns or raises
SpecSimFair == SpecSim /\ WF_vars(NextSim)

-----------------------------------------------------------------------------
(* Properties of calculate_capacity *)

\* a row has been emitted; Now is the tick of the last emitted row
Emitted == ti >= 1
Now == timeslots[ti]

TripIdx == 1..Len(df)
EndsAt(v, t) == \E i \in TripIdx : df[i].EV = v /\ df[i].end_time = t
StartsAt(v, t) == \E i \in TripIdx : df[i].EV = v /\ df[i].start_time = t

\* C1: at the end of every tick, for either setting of sim_charging, the key
\* sets satisfy vpp <= charging <= fleet and rent <= fleet.
C1_KeySubsets ==
    Emitted =>
        /\ Keys(vpp) \subseteq Keys(charging)
        /\ Keys(charging) \subseteq Keys(fleet)
        /\ Keys(rent) \subseteq Keys(fleet)

\* a tick after which one EV is in all four maps while another is driving
C1_Witness ==
    /\ Emitted
    /\ Keys(vpp) # {}
    /\ Keys(fleet) \ Keys(rent) # {}
    /\ \E v \in EVs : StartsAt(v, Now) /\ EndsAt(v, Now)

\* C2: at the end of every tick every entry of vpp has SoC <= 100 - charging_step.
C2_VppHeadroom ==
    Emitted => \A v \in Keys(vpp) : vpp[v] <= 100 - charging_step

\* a vpp entry that was charged up to exactly 100 - charging_step
C2_Witness ==
    /\ Emitted
    /\ sim_charging
    /\ \E v \in Keys(vpp) :
          /\ vpp[v] = 100 - charging_step
          /\ ~EndsAt(v, Now)

\* C3: the run emits (max(end_time) - min(start_time)) / 300 + 1 rows, the first
\* at min(start_time), the last at max(end_time), consecutive rows 300 s apart.
MinStart == Min({df[i].start_time : i \in TripIdx})
MaxEnd == Max({df[i].end_time : i \in TripIdx})

C3_Rows ==
    fpc = "done" =>
        /\ (MaxEnd - MinStart) % 300 = 0
        /\ Len(df_charging) = (MaxEnd - MinStart) \div 300 + 1
        /\ df_charging[1].timestamp = MinStart
        /\ df_charging[Len(df_charging)].timestamp = MaxEnd
        /\ \A k \in 1..Len(df_charging) - 1 :
              df_charging[k + 1].timestamp - df_charging[k].timestamp = 300

\* a finished run of several rows that does not start at time 0 and whose
\* last trip in table order is not the one that ends last
C3_Witness ==
    /\ fpc = "done"
    /\ Len(df_charging) >= 2
    /\ MinStart > 0
    /\ df[Len(df)].end_time < MaxEnd

\* C4: each vehicle that ends a trip at a charging station at tick t (and does
\* not start a trip at t) has exactly its own trip's end SoC in the charging
\* map after tick t, whatever other vehicles end trips at t.
C4_OwnEndSoc ==
    Emitted =>
        \A i \in TripIdx :
            (/\ df[i].end_time = Now
             /\ df[i].end_charging = 1
             /\ ~StartsAt(df[i].EV, Now))
            => /\ df[i].EV \in Keys(charging)
               /\ charging[df[i].EV] = df[i].end_soc

\* C5: a trip that ends at tick t (its vehicle not starting a trip at t) leaves
\* the vehicle in fleet and rent with the end SoC, in charging iff
\* end_charging = 1, and in vpp iff end_charging = 1 and
\* end SoC <= 100 - charging_step.
C5_EndTrip ==
    Emitted =>
        \A i \in TripIdx :
            (df[i].end_time = Now /\ ~StartsAt(df[i].EV, Now))
            => LET v == df[i].EV
               IN  /\ v \in Keys(fleet) /\ fleet[v] = df[i].end_soc
                   /\ v \in Keys(rent) /\ rent[v] = df[i].end_soc
                   /\ (v \in Keys(charging)) <=> (df[i].end_charging = 1)
                   /\ (v \in Keys(vpp)) <=>
                        (df[i].end_charging = 1
                           /\ df[i].end_soc <= 100 - charging_step)

\* two trips end at the same tick, one at a charger with exactly
\* 100 - charging_step, one away from a charger
C5_Witness ==
    /\ Emitted
    /\ \E i, j \in TripIdx :
          /\ df[i].end_time = Now /\ df[j].end_time = Now
          /\ ~StartsAt(df[i].EV, Now) /\ ~StartsAt(df[j].EV, Now)
          /\ df[i].end_charging = 1 /\ df[i].end_soc = 100 - charging_step
          /\ df[j].end_charging = 0
          /\ df[i].EV \in Keys(vpp)
          /\ df[j].EV \notin Keys(charging)

\* C6: a vehicle that ends a trip and starts a trip at the same tick is, in the
\* row of that tick, in none of rent, charging and vpp, and its fleet SoC is
\* the start SoC of the trip that starts (the last one in table order).
LastStart(v, t) == Max({i \in TripIdx : df[i].EV = v /\ df[i].start_time = t})

C6_EndThenStart ==
    Emitted =>
        \A v \in EVs :
            (EndsAt(v, Now) /\ StartsAt(v, Now))
            => /\ v \notin Keys(rent)
               /\ v \notin Keys(charging)
               /\ v \notin Keys(vpp)
               /\ v \in Keys(fleet)
               /\ fleet[v] = df[LastStart(v, Now)].start_soc
               /\ df_charging[ti].rent = Cardinality(Keys(rent))
               /\ df_charging[ti].fleet = Cardinality(Keys(fleet))

\* one trip of a vehicle ends at a charger at the tick at which its next trip starts
C6_Witness ==
    /\ Emitted
    /\ \E i, j \in TripIdx :
          /\ i # j
          /\ df[i].EV = df[j].EV
          /\ df[i].end_time = Now /\ df[i].start_time < Now
          /\ df[i].end_charging = 1
          /\ df[j].start_time = Now /\ df[j].end_time > Now
          /\ df[j].start_soc # df[i].end_soc
          /\ df[j].EV \notin Keys(rent)

\* C7: with sim_charging on, a parked vehicle in vpp gains exactly
\* charging_step per tick in charging and in vpp; at the first tick at which
\* its SoC exceeds 100 - charging_step it leaves vpp and stays in charging,
\* where its SoC reaches 100 and stays 100; it does not re-enter vpp before it
\* ends another trip at a charger.
Parked(v, t) == ~EndsAt(v, t) /\ ~StartsAt(v, t)

C7_ParkedCharging ==
    [][(sim_charging /\ ti' = ti + 1 /\ Emitted) =>
        \A v \in EVs : Parked(v, timeslots[ti + 1]) =>
            /\ (v \in Keys(vpp)) =>
                 /\ v \in Keys(charging')
                 /\ charging'[v] = charging[v] + charging_step
                 /\ IF vpp[v] + charging_step <= 100 - charging_step
                    THEN v \in Keys(vpp') /\ vpp'[v] = vpp[v] + charging_step
                    ELSE v \notin Keys(vpp')
            /\ (v \in Keys(charging) \ Keys(vpp)) =>
                 /\ v \notin Keys(vpp')
                 /\ v \in Keys(charging')
                 /\ (charging[v] > 100 - charging_step) => charging'[v] = 100
      ]_vars

-----------------------------------------------------------------------------
(* Properties of the strategies *)

\* a step that called _update_consumption_plan; last' describes the call
Called == attempts' = attempts + 1
PlanOf(market) == IF market = "balancing" THEN balancing_plan ELSE intraday_plan
PlansAndAccount == <<balancing_plan, intraday_plan, balance, written>>

\* C8 as stated: every call of _update_consumption_plan for a timeslot whose
\* plan entry is already nonzero ends in the double-booking error and leaves
\* the plan and the account balance unchanged.
C8_NonzeroAlwaysRaises ==
    [][(Called /\ PlanGet(PlanOf(last'.market), last'.timeslot) # 0) =>
          /\ last'.outcome = "double_booking"
          /\ UNCHANGED PlansAndAccount
      ]_vars

\* C8 as amended: such a call leaves the plans and the balance unchanged, and
\* it ends in the double-booking error exactly when the market accepted the bid
\* (a price was predicted, not above the tariff, and the bid came back).
C8_NonzeroRaisesOnAcceptance ==
    [][(Called /\ PlanGet(PlanOf(last'.market), last'.timeslot) # 0) =>
          /\ UNCHANGED PlansAndAccount
          /\ (last'.outcome = "double_booking") <=> (last'.bid = "accepted")
          /\ last'.outcome \in {"no_price", "tariff", "bid_error", "unsuccessful",
                                "double_booking"}
      ]_vars

\* a call for a committed balancing slot has just ended in the double-booking error
C8_Witness ==
    /\ last # NoCall
    /\ last.market = "balancing"
    /\ last.outcome = "double_booking"
    /\ PlanGet(balancing_plan, last.timeslot) > 0
    /\ written[<<"balancing", last.timeslot>>] = 1

\* C9 as stated: a double-booking error leaves the strategy invocation
\* uncaught; the invocation stops there (no further timeslot of the balancing
\* run, no intraday inside integrated).
C9_DoubleBookingFatal ==
    [][(Called /\ last'.outcome = "double_booking") =>
          /\ uncaught'
          /\ cpc' = "idle"
      ]_vars

\* the number of plan updates a whole invocation makes
ExpectedAttempts(name, clock) ==
    (IF name \in {"balancing", "integrated"} /\ AtCutoff(clock) THEN SlotsPerDay ELSE 0)
    + (IF name \in {"intraday", "integrated"} /\ IntradayDue(clock) THEN 1 ELSE 0)

\* C9 as amended: the double-booking error is a ValueError, which balancing
\* and intraday catch and log; only that timeslot is skipped (plans and account
\* unchanged), the loop goes on to the next timeslot, inside integrated intraday
\* still runs, and every invocation ends having attempted all its timeslots.
C9_DoubleBookingCaught ==
    [][/\ (Called /\ last'.outcome = "double_booking") =>
            /\ ~uncaught'
            /\ warned' = warned + 1
            /\ UNCHANGED PlansAndAccount
            /\ (cpc = "bal_loop") =>
                 /\ bi' = bi + 1
                 /\ cpc' = IF bi' < SlotsPerDay THEN "bal_loop"
                           ELSE IF strategy = "integrated" THEN "intraday" ELSE "idle"
       /\ (cpc' = "bal_loop") => attempts' = bi'
       /\ (cpc # "idle" /\ cpc' = "idle") =>
            attempts' = ExpectedAttempts(strategy, now)
      ]_vars

\* an integrated invocation has ended after a double-booking error in its
\* balancing loop, with all 96 slots and the intraday slot attempted
C9_Witness ==
    /\ strategy = "integrated"
    /\ cpc = "idle"
    /\ warned >= 1
    /\ attempts = SlotsPerDay + 1
    /\ last.market = "intraday"
    /\ last.outcome = "bought"

\* C10: each timeslot key of each market's consumption plan is written at
\* most once in a run, whatever quantities the market accepts, zero included.
C10_WrittenOnce ==
    \A k \in DOMAIN written : written[k] <= 1

\* the market collaborator was asked for a bid in the call that last' describes
BidSubmitted == last'.bid # "not_called"

\* C11 as stated: market.bid is called only when the predicted clearing price
\* of the timeslot is strictly lower than the industry tariff.
C11_BidOnlyStrictlyCheaper ==
    [][(Called /\ BidSubmitted) =>
          /\ last'.price # NoPrice
          /\ last'.price < IndustryTariff
      ]_vars

\* C11 as amended: market.bid is called only when a clearing price was
\* predicted and it is not higher than the industry tariff (equal included).
C11_BidOnlyNotDearer ==
    [][(Called /\ BidSubmitted) =>
          /\ last'.price # NoPrice
          /\ last'.price <= IndustryTariff
      ]_vars

\* a bid at exactly the industry tariff has been submitted and accepted
C11_Witness ==
    /\ last # NoCall
    /\ last.price = IndustryTariff
    /\ last.bid = "accepted"
    /\ last.outcome = "bought"

\* C12: when the predicted clearing price is above the industry tariff, the
\* plan update submits no bid and leaves both plans and the balance unchanged.
C12_DearerNoBid ==
    [][(Called /\ last'.price # NoPrice /\ last'.price > IndustryTariff) =>
          /\ ~BidSubmitted
          /\ last'.outcome = "tariff"
          /\ UNCHANGED PlansAndAccount
      ]_vars

\* a call at price 50 > 45 has returned, with commitments and savings on the books
C12_Witness ==
    /\ last # NoCall
    /\ last.price > IndustryTariff
    /\ last.outcome = "tariff"
    /\ balance > 0
    /\ intraday_plan # EmptyDict

\* the call that last' describes was a clean acceptance
Accepted == Called /\ last'.outcome = "bought"

\* C13 as stated: a clean acceptance of q kW at p EUR/MWh credits exactly
\* q * 0.25 / 1000 * (T - p) EUR, which for q = 10, p = 40, T = 45 is 0.125 EUR
\* (an eighth), and no other step changes the balance.
C13_CreditEighth ==
    [][/\ Accepted =>
            /\ balance' - balance = last'.quantity * (IndustryTariff - last'.price)
            /\ (last'.quantity = 10 /\ last'.price = 40 /\ IndustryTariff = 45) =>
                 8 * (balance' - balance) = MoneyUnit
       /\ (balance' # balance) => Accepted
      ]_vars

\* C13 as amended: the same, the example being 0.0125 EUR (an eightieth).
C13_CreditEightieth ==
    [][/\ Accepted =>
            /\ balance' - balance = last'.quantity * (IndustryTariff - last'.price)
            /\ (last'.quantity = 10 /\ last'.price = 40 /\ IndustryTariff = 45) =>
                 80 * (balance' - balance) = MoneyUnit
       /\ (balance' # balance) => Accepted
      ]_vars

\* the scenario of the spec: 10 kW accepted at 40 EUR/MWh, on an empty account
C13_Witness ==
    /\ last # NoCall
    /\ last.outcome = "bought"
    /\ last.quantity = 10
    /\ last.price = 40
    /\ 80 * balance = MoneyUnit

\* the plan of the other market, and both plans after the step
OtherPlanOf(market) == IF market = "balancing" THEN intraday_plan ELSE balancing_plan
PlanOfNext(market) == IF market = "balancing" THEN balancing_plan' ELSE intraday_plan'
OtherPlanOfNext(market) == IF market = "balancing" THEN intraday_plan' ELSE balancing_plan'

\* C14: a clean acceptance for slot ts with quantity q writes exactly the keys
\* ts, ts + 300 and ts + 600 of the target plan with q; every other key of
\* that plan and the whole plan of the other market are unchanged.
C14_ThreeSubSlots ==
    [][Accepted =>
          LET ts == last'.timeslot
              ks == {ts, ts + 300, ts + 600}
              old == PlanOf(last'.market)
              new == PlanOfNext(last'.market)
          IN  /\ DOMAIN new = DOMAIN old \cup ks
              /\ \A k \in ks : new[k] = last'.quantity
              /\ \A k \in DOMAIN old \ ks : new[k] = old[k]
              /\ OtherPlanOfNext(last'.market) = OtherPlanOf(last'.market)
      ]_vars

\* a second intraday slot has been bought next to an earlier one, with a
\* balancing commitment on the other plan
C14_Witness ==
    /\ last # NoCall
    /\ last.market = "intraday"
    /\ last.outcome = "bought"
    /\ last.quantity > 0
    /\ Cardinality(DOMAIN intraday_plan) = 6
    /\ balancing_plan # EmptyDict

\* C15: the balance never decreases, and it changes only in a step in which
\* a bid was accepted and written to a plan.
C15_BalanceMonotone ==
    [][/\ balance' >= balance
       /\ (balance' # balance) =>
            /\ Accepted
            /\ written' # written
            /\ PlanOfNext(last'.market) # PlanOf(last'.market)
      ]_vars

\* two accepted bids have been credited
C15_Witness ==
    /\ last # NoCall
    /\ last.outcome = "bought"
    /\ balance > last.quantity * (IndustryTariff - last.price)
    /\ last.quantity * (IndustryTariff - last.price) > 0

\* the market's answer in the call that last' describes was a recoverable
\* failure: no price prediction, a bid error, or a bid that was not accepted
RecoverableFailure ==
    \/ last'.price = NoPrice
    \/ BidSubmitted /\ last'.bid \in {"error", "none"}

\* C16: in a balancing run at the cutoff, a recoverable failure for one
\* timeslot leaves plans and account unchanged, the run goes on with the next
\* timeslot (no retry), and the run ends only after all 96 timeslots.
C16_FailureSkipsSlot ==
    [][(cpc = "bal_loop") =>
          /\ Called
          /\ last'.market = "balancing"
          /\ RecoverableFailure =>
                /\ UNCHANGED PlansAndAccount
                /\ ~uncaught'
                /\ bi' = bi + 1
          /\ (cpc' # "bal_loop") => (bi' = 96 /\ attempts' = 96)
      ]_vars

\* a balancing run has ended after 96 attempts, the first accepted, the last failed
C16_Witness ==
    /\ strategy = "balancing"
    /\ cpc = "idle"
    /\ attempts = 96
    /\ last.outcome = "bid_error"
    /\ balancing_plan # EmptyDict

\* C17: intraday attempts a plan update in an invocation if and only if
\* clock + 1800 s is an exact multiple of 900 s, and then for exactly the one
\* timeslot clock + 1800, on the intraday plan only; every timeslot it passes
\* on is 15-minute epoch-aligned.
C17_IntradayAligned ==
    [][(cpc = "intraday") =>
          /\ Called <=> ((now + 1800) % 900 = 0)
          /\ Called =>
                /\ last'.market = "intraday"
                /\ last'.timeslot = now + 1800
                /\ last'.timeslot % 900 = 0
                /\ balancing_plan' = balancing_plan
          /\ cpc' = "idle"
      ]_vars

\* the step enters a balancing invocation
BalancingEntered == cpc = "idle" /\ invocations' = invocations + 1 /\ strategy' = "balancing"

\* C18: balancing attempts plan updates only in an invocation whose clock
\* time-of-day is exactly 16:00; there it attempts exactly 96 updates, one per
\* 15-minute slot of the next calendar day from 00:00 to 23:45 in ascending
\* order, all on the balancing plan; any other invocation calls no market
\* and changes nothing.
C18_BalancingAtCutoff ==
    [][/\ BalancingEntered =>
            /\ UNCHANGED PlansAndAccount
            /\ ~Called
            /\ cpc' = IF now % 86400 = 57600 THEN "bal_loop" ELSE "idle"
       /\ (strategy = "balancing" /\ Called) =>
            /\ cpc = "bal_loop"
            /\ now % 86400 = 57600
            /\ last'.market = "balancing"
            /\ last'.timeslot = (now \div 86400 + 1) * 86400 + 900 * attempts
            /\ intraday_plan' = intraday_plan
            /\ cpc' = IF attempts' = 96 THEN "idle" ELSE "bal_loop"
       /\ (strategy = "balancing" /\ cpc = "bal_loop") => Called
      ]_vars

\* a balancing invocation at 16:00 has ended with the 96th update, for 23:45
\* of the next day
C18_Witness ==
    /\ strategy = "balancing"
    /\ cpc = "idle"
    /\ attempts = 96
    /\ last # NoCall
    /\ last.timeslot = (now \div 86400 + 2) * 86400 - 900

-----------------------------------------------------------------------------
(* Properties of the event-driven driver *)

\* the run is over: env.run has returned
RunOver == spc = "stopped"

\* the drives spawned so far are the first trips of the table, in table
\* order, each spawned once at the clock value of its start time
SpawnedInOrder ==
    /\ Len(dispatched) <= Len(df)
    /\ \A i \in 1..Len(dispatched) :
          /\ dispatched[i].trip = i
          /\ dispatched[i].at = df[i].start_time

\* C20: for a trip table sorted by start time, the drive activity of every
\* trip is spawned exactly once, at the clock value of its start time, in
\* table order, without the main loop waiting for a drive: when the run is
\* over every trip has been dispatched.
C20_EveryTripDispatched ==
    /\ SpawnedInOrder
    /\ RunOver => Len(dispatched) = Len(df)

\* env.run has returned or raised: main is over
RunEnded == spc \in {"stopped", "error"}

\* C21: every run of the driver terminates; the clock starts at the minimum
\* start time, never decreases and never passes the maximum end time, and
\* the run ends with the clock equal to the maximum end time, nothing ending
\* it earlier.
C21_RunsToHorizon ==
    /\ env_now = StartTimeMin(df)
    /\ [][env_now' >= env_now]_vars
    /\ [](env_now <= EndTimeMax(df))
    /\ [](RunEnded => env_now = EndTimeMax(df))
    /\ [][RunEnded => UNCHANGED vars]_vars
    /\ <>RunEnded

\* a run over a table that spans more than one instant has returned at the
\* maximum end time, with every trip dispatched
C21_Witness ==
    /\ spc = "stopped"
    /\ StartTimeMin(df) < EndTimeMax(df)
    /\ env_now = EndTimeMax(df)
    /\ Len(dispatched) = Len(df)
    /\ Len(df) >= 2

-----------------------------------------------------------------------------
(* Properties of the charging stages of calculate_capacity *)

\* the maps after stage 1, and after stages 1 and 2, of the next tick
AfterStage1 == Stage1(Maps, sim_charging, charging_step)
AfterStage2 == Stage2(AfterStage1, charging_step)

\* C22: with sim_charging on and trip SoC values in 0..100, no SoC in the
\* charging or vpp map exceeds 100, at the end of any tick and right after
\* the charging stage of the next one: charging is capped at 100, vpp is
\* incremented without a cap and still never passes 100.
C22_NeverAbove100 ==
    sim_charging =>
        /\ \A k \in Keys(charging) : charging[k] <= 100
        /\ \A k \in Keys(vpp) : vpp[k] <= 100
        /\ \A k \in Keys(AfterStage1.charging) : AfterStage1.charging[k] <= 100
        /\ \A k \in Keys(AfterStage1.vpp) : AfterStage1.vpp[k] <= 100

\* after two ticks one vehicle sits at the cap and one has charged up to the
\* last value with headroom, so that the next charging stage takes it to 100
C22_Witness ==
    /\ sim_charging
    /\ ti >= 2
    /\ \E k \in Keys(charging) : charging[k] = 100
    /\ \E k \in Keys(vpp) : vpp[k] = 100 - charging_step /\ vpp[k] > rent[k]
    /\ \E k \in Keys(AfterStage1.vpp) : AfterStage1.vpp[k] = 100

\* C23: stages 1 and 2 of a tick change only the charging and vpp maps;
\* fleet and rent, keys and SoC values, are unchanged by them, so a parked
\* vehicle keeps its entries in fleet and rent over the tick and a charging
\* vehicle has its trip-end SoC in fleet and rent until its next trip starts.
C23_ChargeStagesFrame ==
    [][(ti' = ti + 1) =>
          /\ AfterStage1.fleet = fleet /\ AfterStage1.rent = rent
          /\ AfterStage2.fleet = fleet /\ AfterStage2.rent = rent
          /\ \A v \in EVs : Parked(v, timeslots[ti + 1]) =>
                /\ (v \in Keys(fleet')) <=> (v \in Keys(fleet))
                /\ (v \in Keys(rent')) <=> (v \in Keys(rent))
                /\ (v \in Keys(fleet)) => fleet'[v] = fleet[v]
                /\ (v \in Keys(rent)) => rent'[v] = rent[v]
          /\ \A v \in Keys(charging') :
                /\ v \in Keys(rent') /\ v \in Keys(fleet')
                /\ rent'[v] = fleet'[v]
                /\ \E i \in TripIdx : df[i].EV = v /\ df[i].end_soc = fleet'[v]
                                       /\ df[i].end_time <= timeslots[ti + 1]
      ]_vars

\* a parked vehicle has charged for a tick in vpp while fleet and rent still
\* hold its trip-end SoC
C23_Witness ==
    /\ sim_charging
    /\ ti >= 2
    /\ \E v \in Keys(vpp) :
          /\ vpp[v] = rent[v] + charging_step
          /\ rent[v] = fleet[v]
          /\ Parked(v, Now)

====
